---- MODULE Spec2Model ----
(***************************************************************************)
(* SMS notification backend: the profile directory, the message ledger,   *)
(* the dispatcher send_sms, the Twilio status webhooks and the inbound    *)
(* webhook, as state machines over the rows of the two tables.            *)
(*                                                                         *)
(* Strings that the code inspects character by character (phone numbers)  *)
(* are sequences of one-character strings; the empty string is <<>>.      *)
(* Other strings are TLA+ strings. Python's None is the value None for    *)
(* string-valued optionals and NoTime for a null DateTimeField. A form or  *)
(* a dict is a function whose DOMAIN holds exactly the keys supplied.     *)
(***************************************************************************)
EXTENDS Integers, Sequences, FiniteSets, TLC

VARIABLES
    profiles,   \* accounts_profile: user -> row (exists = FALSE: no row)
    ledger,     \* messaging_message: sequence of rows, pk = index
    auditlog,   \* messaging_auditlog: sequence of rows
    now,        \* the wall clock read by timezone.now()
    Client,     \* services.Client: TRUE when twilio.rest.Client was imported
    req,        \* the send_sms call in progress (its locals and position)
    last,       \* the operation that completed last and what it answered
    ever,       \* history: per ledger row, whether its status has ever been DELIVERED
    prev,       \* history: the status callback applied last, and the row it was applied to
    handlers    \* the status webhook requests in progress (each one's locals and position)

vars == <<profiles, ledger, auditlog, now, Client, req, last, ever, prev, handlers>>

----------------------------------------------------------------------------
(* Bounds *)

MaxLedger == 1    \* rows in the ledger, dispatcher/reconciler specification
MaxInbox == 1     \* rows in the ledger, directory specification
MaxRetry == 2     \* rows in the ledger, retry specification
MaxNow == 2       \* clock readings
MaxPhone == 15    \* digits "5" in a phone number submitted to the serializer

----------------------------------------------------------------------------
(* Values *)

None == "None"
NoTime == 0

Users == {"alice", "bob"}
Bodies == {"hello"}
Campaigns == {None, "c1"}
Sids == {"SM1", "SM2"}

P1 == <<"+", "1", "5", "5", "5", "1", "2", "3", "4">>
P2 == <<"+", "4", "4", "7", "7", "0", "0", "9", "0", "0">>
NoPlus == <<"5", "5", "5", "1", "2", "3", "4", "5", "6", "7">>

EmptyDict == [k \in {} |-> None]

\* dict.get(k, default) / request.POST.get(k, default)
Get(d, k, default) == IF k \in DOMAIN d THEN d[k] ELSE default

\* what an operation answered: the HTTP status (0: not a view), what it returned, the row it wrote
Answer(op, resp, ret, pk) == [op |-> op, resp |-> resp, ret |-> ret, pk |-> pk]

\* the dicts that hold key k with a value of S, or do not hold k
OptField(k, S) == {k :> v : v \in S} \cup {EmptyDict}

----------------------------------------------------------------------------
(* accounts.models.Profile *)

NoProfile ==
    [exists |-> FALSE, phone_number |-> <<>>, sms_opt_in |-> FALSE,
     timezone_name |-> "UTC", verified_at |-> NoTime]

DefaultProfile == [NoProfile EXCEPT !.exists = TRUE]

\* a lookup that forgets the phone_number filter
ProfilesWithPhone_unfiltered(phone) ==
    {u \in Users : profiles[u].exists}

\* Profile.objects.get(phone_number=...) candidates
ProfilesWithPhone(phone) ==
    {u \in Users : profiles[u].exists /\ profiles[u].phone_number = phone}

----------------------------------------------------------------------------
(* accounts.serializer.ProfileSerializer *)

Digits == {"0", "1", "2", "3", "4", "5", "6", "7", "8", "9"}

\* the one character ARABIC-INDIC DIGIT THREE, a decimal digit that is not ASCII
ArabicIndicThree == "U+0663"

\* what \d matches in a str pattern compiled without re.ASCII: every Unicode decimal digit
DecimalDigits == Digits \cup {ArabicIndicThree}

\* \+[1-9]\d{7,14} over the whole of s
E164Body(s) ==
    /\ Len(s) \in 9..16
    /\ s[1] = "+"
    /\ s[2] \in Digits \ {"0"}
    /\ \A i \in 3..Len(s) : s[i] \in DecimalDigits

\* E164_RE.match(s): ^ and $ anchor the pattern; $ also matches before a final newline
E164_RE_match(s) ==
    \/ E164Body(s)
    \/ Len(s) > 0 /\ s[Len(s)] = "\n" /\ E164Body(SubSeq(s, 1, Len(s) - 1))

\* validate_phone_number: TRUE when the value is accepted
validate_phone_number(value) ==
    IF value = <<>> THEN TRUE ELSE E164_RE_match(value)

\* validate(attrs): TRUE when accepted; instance is NoProfile for self.instance = None
validate(instance, attrs) ==
    LET sms_opt_in == Get(attrs, "sms_opt_in", instance.sms_opt_in)
        phone == Get(attrs, "phone_number", instance.phone_number)
    IN  ~(sms_opt_in /\ phone = <<>>)

\* is_valid(): the field in error, or None; field validators run before validate()
is_valid(instance, data) ==
    IF "phone_number" \in DOMAIN data /\ ~validate_phone_number(data["phone_number"])
    THEN "phone_number"
    ELSE IF ~validate(instance, data) THEN "sms_opt_in"
    ELSE None

\* a write that puts the column defaults where validated_data has no key
SetAttrs_replace(profile, validated_data) ==
    [f \in DOMAIN profile |->
        IF f \in DOMAIN validated_data /\ f # "user" THEN validated_data[f] ELSE DefaultProfile[f]]

\* setattr(profile, k, v) for every key of validated_data except user
SetAttrs(profile, validated_data) ==
    [f \in DOMAIN profile |->
        IF f \in DOMAIN validated_data /\ f # "user" THEN validated_data[f] ELSE profile[f]]

\* serializer = ProfileSerializer(data=data); is_valid(); save() -> create()
ProfileSerializer_create(data) ==
    LET error == is_valid(NoProfile, data)
        op == "ProfileSerializer.create"
    IN  /\ req.pc = "idle"
        /\ IF error # None
           THEN /\ last' = Answer(op, 400, error, 0)
                /\ profiles' = profiles
           ELSE IF "user" \notin DOMAIN data
           THEN /\ last' = Answer(op, 400, "user_id", 0)
                /\ profiles' = profiles
           ELSE \* get_or_create(user=user, defaults=validated_data), then the setattr loop
                /\ profiles' = [profiles EXCEPT ![data["user"]] =
                       SetAttrs(IF @.exists THEN @ ELSE DefaultProfile, data)]
                /\ last' = Answer(op, 201, "Profile", 0)
        /\ UNCHANGED <<ledger, auditlog, now, Client, req, ever, prev, handlers>>

\* serializer = ProfileSerializer(instance, data=data, partial=...); is_valid(); save() -> update()
ProfileSerializer_update(u, data) ==
    LET error == is_valid(profiles[u], data)
        op == "ProfileSerializer.update"
    IN  /\ req.pc = "idle"
        /\ profiles[u].exists
        /\ IF error # None
           THEN /\ last' = Answer(op, 400, error, 0)
                /\ profiles' = profiles
           ELSE /\ profiles' = [profiles EXCEPT ![u] = SetAttrs(@, data)]
                /\ last' = Answer(op, 200, "Profile", 0)
        /\ UNCHANGED <<ledger, auditlog, now, Client, req, ever, prev, handlers>>

\* ProfileViewSet.verify (POST /profiles/{id}/verify/); get_object() answers 404 without a row
ProfileViewSet_verify(u) ==
    LET op == "ProfileViewSet.verify"
    IN  /\ req.pc = "idle"
        /\ IF ~profiles[u].exists
           THEN /\ last' = Answer(op, 404, "Http404", 0)
                /\ profiles' = profiles
           ELSE /\ profiles' = [profiles EXCEPT ![u].verified_at = now]
                /\ last' = Answer(op, 200, "Profile", 0)
        /\ UNCHANGED <<ledger, auditlog, now, Client, req, ever, prev, handlers>>

\* Profile.mark_verified
mark_verified(u) ==
    /\ req.pc = "idle"
    /\ profiles[u].exists
    /\ profiles' = [profiles EXCEPT ![u].verified_at = now]
    /\ last' = Answer("mark_verified", 0, "None", 0)
    /\ UNCHANGED <<ledger, auditlog, now, Client, req, ever, prev, handlers>>

----------------------------------------------------------------------------
(* messaging.models.Message *)

Direction == [OUTBOUND |-> "OUTBOUND", INBOUND |-> "INBOUND"]
Status == [QUEUED |-> "QUEUED", SENT |-> "SENT", DELIVERED |-> "DELIVERED", FAILED |-> "FAILED"]

\* Message.objects.create(**kw): the fields not given take the column defaults
NewMessage(to_user, direction, body, twilio_sid, status, campaign, delivered_at) ==
    [to_user |-> to_user, direction |-> direction, body |-> body,
     twilio_sid |-> twilio_sid, status |-> status, error_code |-> "",
     raw_provider_status |-> "", campaign |-> campaign, delivered_at |-> delivered_at]

\* an UPDATE without its WHERE clause: every row takes the fields of the object
Save_everyrow(rows, pk, obj, fields) ==
    [i \in DOMAIN rows |-> [f \in DOMAIN rows[i] |-> IF f \in fields THEN obj[f] ELSE rows[i][f]]]

\* Model.save(update_fields=fields): UPDATE of the row pk from the in-memory object
Save(rows, pk, obj, fields) ==
    [rows EXCEPT ![pk] = [f \in DOMAIN @ |-> IF f \in fields THEN obj[f] ELSE @[f]]]

\* a lookup that takes any row carrying a sid
MessagesWithSid_anysid(sid) == {i \in DOMAIN ledger : ledger[i].twilio_sid # ""}

\* Message.objects.get(twilio_sid=sid) candidates
MessagesWithSid(sid) == {i \in DOMAIN ledger : ledger[i].twilio_sid = sid}

\* mark_status assigning delivered_at without the "is not None" test
mark_status_assign_overwrite(m, status, raw, error_code, delivered_at) ==
    [m EXCEPT !.status = status,
              !.raw_provider_status = IF raw # None THEN raw ELSE @,
              !.error_code = IF error_code # None THEN error_code ELSE @,
              !.delivered_at = delivered_at]

\* Message.mark_status: the in-memory object after the assignments
mark_status_assign(m, status, raw, error_code, delivered_at) ==
    [m EXCEPT !.status = status,
              !.raw_provider_status = IF raw # None THEN raw ELSE @,
              !.error_code = IF error_code # None THEN error_code ELSE @,
              !.delivered_at = IF delivered_at # NoTime THEN delivered_at ELSE @]

MarkStatusFields == {"status", "raw_provider_status", "error_code", "delivered_at"}

\* a mark_status that refuses to take a DELIVERED or FAILED message back to SENT
mark_status_monotonic(rows, pk, m, status, raw, error_code, delivered_at) ==
    IF status = Status.SENT /\ m.status \in {Status.DELIVERED, Status.FAILED}
    THEN rows
    ELSE Save(rows, pk, mark_status_assign(m, status, raw, error_code, delivered_at),
              MarkStatusFields)

\* Message.mark_status: assignments, then save(update_fields=[...])
mark_status(rows, pk, m, status, raw, error_code, delivered_at) ==
    Save(rows, pk, mark_status_assign(m, status, raw, error_code, delivered_at), MarkStatusFields)

\* _apply_twilio_status comparing the status without regard to case
apply_twilio_status_anycase(rows, pk, m, status, error_code) ==
    IF status \in {"delivered", "Delivered"}
    THEN mark_status(rows, pk, m, Status.DELIVERED, status, None, now)
    ELSE IF status \in {"failed", "undelivered"}
    THEN mark_status(rows, pk, m, Status.FAILED, status, error_code, NoTime)
    ELSE IF status \in {"sent", "queued", "accepted"}
    THEN mark_status(rows, pk, m, Status.SENT, status, None, NoTime)
    ELSE Save(rows, pk,
              [m EXCEPT !.raw_provider_status = IF status \in {None, ""} THEN "unknown" ELSE status],
              {"raw_provider_status"})

\* views._apply_twilio_status with updater = message_obj.mark_status
apply_twilio_status(rows, pk, m, status, error_code) ==
    IF status = "delivered"
    THEN mark_status(rows, pk, m, Status.DELIVERED, status, None, now)
    ELSE IF status \in {"failed", "undelivered"}
    THEN mark_status(rows, pk, m, Status.FAILED, status, error_code, NoTime)
    ELSE IF status \in {"sent", "queued", "accepted"}
    THEN mark_status(rows, pk, m, Status.SENT, status, None, NoTime)
    ELSE Save(rows, pk,
              [m EXCEPT !.raw_provider_status = IF status \in {None, ""} THEN "unknown" ELSE status],
              {"raw_provider_status"})

\* a set_status_from_twilio that stamps delivered_at on the first "delivered" only
set_status_from_twilio_setonce(rows, pk, m, status, error_code) ==
    IF status = "delivered"
    THEN mark_status(rows, pk, m, Status.DELIVERED, status, None,
                     IF m.delivered_at # NoTime THEN NoTime ELSE now)
    ELSE IF status \in {"failed", "undelivered"}
    THEN mark_status(rows, pk, m, Status.FAILED, status, error_code, NoTime)
    ELSE IF status \in {"sent", "queued", "accepted"}
    THEN mark_status(rows, pk, m, Status.SENT, status, None, NoTime)
    ELSE Save(rows, pk,
              [m EXCEPT !.raw_provider_status = IF status \in {None, ""} THEN "unknown" ELSE status],
              {"raw_provider_status"})

\* Message.set_status_from_twilio
set_status_from_twilio(rows, pk, m, status, error_code) ==
    IF status = "delivered"
    THEN mark_status(rows, pk, m, Status.DELIVERED, status, None, now)
    ELSE IF status \in {"failed", "undelivered"}
    THEN mark_status(rows, pk, m, Status.FAILED, status, error_code, NoTime)
    ELSE IF status \in {"sent", "queued", "accepted"}
    THEN mark_status(rows, pk, m, Status.SENT, status, None, NoTime)
    ELSE Save(rows, pk,
              [m EXCEPT !.raw_provider_status = IF status \in {None, ""} THEN "unknown" ELSE status],
              {"raw_provider_status"})

----------------------------------------------------------------------------
(* History *)

\* the status callback post was applied to the row pk; again: the callback applied
\* just before it was the same one, to the same row
Applied(post, pk) ==
    [post |-> post, pk |-> pk, again |-> prev.post = post /\ prev.pk = pk]
NoneApplied == [post |-> EmptyDict, pk |-> 0, again |-> FALSE]

\* the rows whose status is or has been DELIVERED, after a step that leaves the ledger as rows
Ever(rows) ==
    [i \in DOMAIN rows |->
        (i \in DOMAIN ever /\ ever[i]) \/ rows[i].status = Status.DELIVERED]

----------------------------------------------------------------------------
(* messaging.services.send_sms *)

Idle ==
    [pc |-> "idle", to_user |-> None, body |-> "", campaign |-> None, pk |-> 0,
     len0 |-> 0, invoked |-> FALSE, sid |-> "", exc |-> None, code |-> ""]

\* getattr(e, "code", "") without the fallback to the type name
ExcErrorCode_codeonly(exc, code) == code

\* getattr(e, "code", "") or type(e).__name__
ExcErrorCode(exc, code) == IF code # "" THEN code ELSE exc

\* what client.messages.create can raise: the exception type and its code attribute
ProviderErrors == {<<"TwilioRestException", "21211">>, <<"TwilioRestException", "">>}

\* the sids Twilio has not handed out yet for an outbound message
FreshSids == {s \in Sids : \A i \in DOMAIN ledger :
                 ledger[i].direction = Direction.OUTBOUND => ledger[i].twilio_sid # s}

\* tw.sid: a new id; the code never looks inside a sid, so which unused one is immaterial
ProviderSids == IF FreshSids = {} THEN {} ELSE {CHOOSE s \in FreshSids : TRUE}

\* send_sms creating its row as SENT
send_sms_create_sent(to_user, body, campaign) ==
    /\ req.pc = "idle"
    /\ ledger' = Append(ledger,
           NewMessage(to_user, Direction.OUTBOUND, body, "", Status.SENT, campaign, NoTime))
    /\ ever' = Ever(ledger')
    /\ req' = [Idle EXCEPT !.pc = "try", !.to_user = to_user, !.body = body,
                           !.campaign = campaign, !.pk = Len(ledger) + 1,
                           !.len0 = Len(ledger)]
    /\ UNCHANGED <<profiles, auditlog, now, Client, last, prev, handlers>>

\* lines 19-26: the row is created (and committed) first
send_sms_create(to_user, body, campaign) ==
    /\ req.pc = "idle"
    /\ ledger' = Append(ledger,
           NewMessage(to_user, Direction.OUTBOUND, body, "", Status.QUEUED, campaign, NoTime))
    /\ ever' = Ever(ledger')
    /\ req' = [Idle EXCEPT !.pc = "try", !.to_user = to_user, !.body = body,
                           !.campaign = campaign, !.pk = Len(ledger) + 1,
                           !.len0 = Len(ledger)]
    /\ UNCHANGED <<profiles, auditlog, now, Client, last, prev, handlers>>

\* lines 28-47: the try block up to and including client.messages.create
send_sms_call ==
    /\ req.pc = "try"
    /\ \/ /\ ~Client
          /\ req' = [req EXCEPT !.pc = "except", !.exc = "RuntimeError"]
       \/ /\ Client
          /\ ~profiles[req.to_user].exists
          /\ req' = [req EXCEPT !.pc = "except", !.exc = "RelatedObjectDoesNotExist"]
       \/ /\ Client
          /\ profiles[req.to_user].exists
          /\ \/ \E s \in ProviderSids :
                   req' = [req EXCEPT !.pc = "sent", !.invoked = TRUE, !.sid = s]
             \/ \E e \in ProviderErrors :
                   req' = [req EXCEPT !.pc = "except", !.invoked = TRUE,
                                      !.exc = e[1], !.code = e[2]]
    /\ UNCHANGED <<profiles, ledger, auditlog, now, Client, last, ever, prev, handlers>>

\* lines 63-67: the except block; msg is the in-memory object, rows the table
send_sms_except(rows, msg, exc, code) ==
    Save(rows, req.pk,
         [msg EXCEPT !.status = Status.FAILED, !.error_code = ExcErrorCode(exc, code)],
         {"status", "error_code"})

\* the assignments of lines 49-52 without the one to msg.status
send_sms_assign_nostatus(msg, sid) ==
    [msg EXCEPT !.twilio_sid = sid, !.raw_provider_status = "sent"]

\* lines 49-52: the in-memory object after the provider answered
send_sms_assign(msg, sid) ==
    [msg EXCEPT !.twilio_sid = sid, !.status = Status.SENT, !.raw_provider_status = "sent"]

\* lines 49-61: the provider answered; persist, write the audit entry, return
send_sms_sent ==
    /\ req.pc = "sent"
    /\ LET msg == send_sms_assign(ledger[req.pk], req.sid)
           rows == Save(ledger, req.pk, msg, {"twilio_sid", "status", "raw_provider_status"})
       IN  \/ /\ ledger' = rows
              /\ auditlog' = Append(auditlog,
                     [actor |-> None, action |-> "SEND_SMS",
                      target_user |-> req.to_user, message |-> req.pk])
              /\ last' = Answer("send_sms", 0, "Message", req.pk)
           \/ \* AuditLog.objects.create raises: control passes to the except block
              /\ ledger' = send_sms_except(rows, msg, "OperationalError", "")
              /\ auditlog' = auditlog
              /\ last' = Answer("send_sms", 0, "raised", req.pk)
    /\ ever' = Ever(ledger')
    /\ req' = Idle
    /\ UNCHANGED <<profiles, now, Client, prev, handlers>>

\* lines 63-67 after an exception raised inside the try block by or before the provider call
send_sms_failed ==
    /\ req.pc = "except"
    /\ ledger' = send_sms_except(ledger, ledger[req.pk], req.exc, req.code)
    /\ ever' = Ever(ledger')
    /\ last' = Answer("send_sms", 0, "raised", req.pk)
    /\ req' = Idle
    /\ UNCHANGED <<profiles, auditlog, now, Client, prev, handlers>>

----------------------------------------------------------------------------
(* The HTTP entry points of the dispatcher *)

\* SendMessageSerializer.validate_to_user: the error raised, or None
validate_to_user(user) ==
    IF ~profiles[user].exists \/ profiles[user].phone_number = <<>>
    THEN "User has no phone number."
    ELSE IF ~profiles[user].sms_opt_in
    THEN "User is not opted in to SMS."
    ELSE None

\* POST /api/messages/: SendMessageSerializer.is_valid(), then create() enters send_sms
SendMessageSerializer_save(to_user, body) ==
    \/ /\ req.pc = "idle"
       /\ validate_to_user(to_user) # None
       /\ last' = Answer("SendMessageSerializer", 400, "to_user", 0)
       /\ UNCHANGED <<profiles, ledger, auditlog, now, Client, req, ever, prev, handlers>>
    \/ /\ validate_to_user(to_user) = None
       /\ send_sms_create(to_user, body, None)

TestBody == "Hello Alice! Your appointment is tomorrow at 3pm."

\* views.send_test_sms (POST /send-test/): enters send_sms for the user alice
send_test_sms == send_sms_create("alice", TestBody, None)

----------------------------------------------------------------------------
(* The Twilio status webhook *)

StatusVocabulary ==
    {"delivered", "failed", "undelivered", "sent", "queued", "accepted", "Delivered", ""}
StatusSome == {"delivered", "failed", "sent"}
ErrorCodes == {"30003"}

StatusPosts(sids, vocabulary, codes) ==
    {("AccountSid" :> "AC1") @@ a @@ b @@ c :
        a \in OptField("MessageSid", sids),
        b \in OptField("MessageStatus", vocabulary),
        c \in OptField("ErrorCode", codes)}

\* the two requests the server may be handling at once
Handlers == {1, 2}

\* a request not in progress; m is the Message object the view holds once it has read it
IdleHandler == [pc |-> "idle", post |-> EmptyDict, pk |-> 0, m |-> EmptyDict]

\* views.twilio_status_webhook, lines 166-182: the request of handler h up to and
\* including Message.objects.get; the server takes it whatever send_sms is doing
twilio_status_webhook_get(h, post) ==
    LET sid == Get(post, "MessageSid", None)
        found == MessagesWithSid(sid)
        op == "twilio_status_webhook"
    IN  /\ handlers[h].pc = "idle"
        /\ IF sid \in {None, ""}
           THEN /\ last' = Answer(op, 400, "HttpResponse", 0)
                /\ handlers' = handlers
           ELSE IF found = {}
           THEN /\ last' = Answer(op, 200, "HttpResponse", 0)
                /\ handlers' = handlers
           ELSE IF Cardinality(found) > 1
           THEN \* Message.MultipleObjectsReturned is not caught
                /\ last' = Answer(op, 500, "raised", 0)
                /\ handlers' = handlers
           ELSE LET pk == CHOOSE i \in found : TRUE
                IN  /\ handlers' = [handlers EXCEPT ![h] =
                           [pc |-> "apply", post |-> post, pk |-> pk, m |-> ledger[pk]]]
                    /\ last' = last
        /\ UNCHANGED <<profiles, ledger, auditlog, now, Client, req, ever, prev>>

\* views.twilio_status_webhook, lines 183-184: _apply_twilio_status on the object read
\* earlier, whose save(update_fields) is committed on its own
twilio_status_webhook_apply(h) ==
    LET post == handlers[h].post
        pk == handlers[h].pk
    IN  /\ handlers[h].pc = "apply"
        /\ ledger' = apply_twilio_status(ledger, pk, handlers[h].m,
                          Get(post, "MessageStatus", None), Get(post, "ErrorCode", None))
        /\ last' = Answer("twilio_status_webhook", 200, "HttpResponse", pk)
        /\ ever' = Ever(ledger')
        /\ prev' = Applied(post, pk)
        /\ handlers' = [handlers EXCEPT ![h] = IdleHandler]
        /\ UNCHANGED <<profiles, auditlog, now, Client, req>>

\* views.twilio_status_webhook (POST)
twilio_status_webhook(post) ==
    LET sid == Get(post, "MessageSid", None)
        status == Get(post, "MessageStatus", None)
        error_code == Get(post, "ErrorCode", None)
        found == MessagesWithSid(sid)
        op == "twilio_status_webhook"
    IN  /\ req.pc = "idle"
        /\ IF sid \in {None, ""}
           THEN /\ last' = Answer(op, 400, "HttpResponse", 0)
                /\ ledger' = ledger
           ELSE IF found = {}
           THEN /\ last' = Answer(op, 200, "HttpResponse", 0)
                /\ ledger' = ledger
           ELSE IF Cardinality(found) > 1
           THEN \* Message.MultipleObjectsReturned is not caught
                /\ last' = Answer(op, 500, "raised", 0)
                /\ ledger' = ledger
           ELSE LET pk == CHOOSE i \in found : TRUE
                IN  /\ ledger' = apply_twilio_status(ledger, pk, ledger[pk], status, error_code)
                    /\ last' = Answer(op, 200, "HttpResponse", pk)
        /\ ever' = Ever(ledger')
        /\ prev' = IF last'.pk # 0 THEN Applied(post, last'.pk) ELSE prev
        /\ UNCHANGED <<profiles, auditlog, now, Client, req, handlers>>

\* MessageManager.handle_status_callback(sid, status, error_code)
handle_status_callback(post) ==
    LET sid == Get(post, "MessageSid", None)
        status == Get(post, "MessageStatus", None)
        error_code == Get(post, "ErrorCode", None)
        found == MessagesWithSid(sid)
        op == "handle_status_callback"
    IN  /\ req.pc = "idle"
        /\ IF sid \in {None, ""} \/ found = {}
           THEN /\ last' = Answer(op, 0, "None", 0)
                /\ ledger' = ledger
           ELSE IF Cardinality(found) > 1
           THEN \* Message.MultipleObjectsReturned is not caught
                /\ last' = Answer(op, 0, "raised", 0)
                /\ ledger' = ledger
           ELSE LET pk == CHOOSE i \in found : TRUE
                IN  /\ ledger' = set_status_from_twilio(ledger, pk, ledger[pk], status, error_code)
                    /\ last' = Answer(op, 0, "Message", pk)
        /\ ever' = Ever(ledger')
        /\ prev' = IF last'.pk # 0 THEN Applied(post, last'.pk) ELSE prev
        /\ UNCHANGED <<profiles, auditlog, now, Client, req, handlers>>

----------------------------------------------------------------------------
(* The inbound webhook *)

\* a message as Twilio posts it, and a form that carries neither Body nor MessageSid
FullMessage == ("Body" :> "hello") @@ ("MessageSid" :> "SM1")
BareMessage == EmptyDict

InboundPosts(numbers, rests) ==
    {("AccountSid" :> "AC1") @@ a @@ b : a \in OptField("From", numbers), b \in rests}

\* views.twilio_inbound_webhook (POST)
twilio_inbound_webhook(post) ==
    LET body == Get(post, "Body", "")
        sid == Get(post, "MessageSid", None)
        \* Profile.objects.get(phone_number=None) matches no row
        found == IF "From" \in DOMAIN post THEN ProfilesWithPhone(post["From"]) ELSE {}
        op == "twilio_inbound_webhook"
    IN  /\ req.pc = "idle"
        /\ IF found = {}
           THEN /\ last' = Answer(op, 200, "HttpResponse", 0)
                /\ ledger' = ledger
           ELSE IF Cardinality(found) > 1
           THEN \* Profile.MultipleObjectsReturned is not caught
                /\ last' = Answer(op, 500, "raised", 0)
                /\ ledger' = ledger
           ELSE /\ ledger' = Append(ledger,
                       NewMessage(CHOOSE u \in found : TRUE, Direction.INBOUND, body,
                                  IF sid = None THEN "" ELSE sid,
                                  Status.DELIVERED, None, now))
                /\ last' = Answer(op, 200, "HttpResponse", Len(ledger) + 1)
        /\ ever' = Ever(ledger')
        /\ UNCHANGED <<profiles, auditlog, now, Client, req, prev, handlers>>

\* MessageManager.handle_inbound(from_number, body, sid)
handle_inbound(post) ==
    LET body == Get(post, "Body", "")
        sid == Get(post, "MessageSid", None)
        \* if not from_number: return None
        found == IF "From" \in DOMAIN post /\ post["From"] # <<>>
                 THEN ProfilesWithPhone(post["From"]) ELSE {}
        op == "handle_inbound"
    IN  /\ req.pc = "idle"
        /\ IF found = {}
           THEN /\ last' = Answer(op, 0, "None", 0)
                /\ ledger' = ledger
           ELSE IF Cardinality(found) > 1
           THEN \* Profile.MultipleObjectsReturned is not caught
                /\ last' = Answer(op, 0, "raised", 0)
                /\ ledger' = ledger
           ELSE /\ ledger' = Append(ledger,
                       NewMessage(CHOOSE u \in found : TRUE, Direction.INBOUND, body,
                                  IF sid = None THEN "" ELSE sid,
                                  Status.DELIVERED, None, now))
                /\ last' = Answer(op, 0, "Message", Len(ledger) + 1)
        /\ ever' = Ever(ledger')
        /\ UNCHANGED <<profiles, auditlog, now, Client, req, prev, handlers>>

----------------------------------------------------------------------------
(* Time *)

Tick ==
    /\ now < MaxNow
    /\ now' = now + 1
    /\ UNCHANGED <<profiles, ledger, auditlog, Client, req, last, ever, prev, handlers>>

----------------------------------------------------------------------------
(* The machine: every operation, over given samples of the inputs *)

\* send_sms called with a user of users and a campaign of campaigns
Dispatch(users, campaigns, cap) ==
    \/ \E u \in users, b \in Bodies, c \in campaigns :
          send_sms_create(u, b, c) /\ Len(ledger') <= cap
    \/ send_sms_call
    \/ send_sms_sent
    \/ send_sms_failed

Reconcile(posts) ==
    \/ \E post \in posts : twilio_status_webhook(post)
    \/ \E post \in posts : handle_status_callback(post)

Route(posts, cap) ==
    \/ \E post \in posts : twilio_inbound_webhook(post) /\ Len(ledger') <= cap
    \/ \E post \in posts : handle_inbound(post) /\ Len(ledger') <= cap

Booted == Answer("boot", 0, "None", 0)

\* alice has opted in with the number P1, bob has no profile row
Directory ==
    [u \in Users |-> IF u = "alice"
                     THEN [DefaultProfile EXCEPT !.phone_number = P1, !.sms_opt_in = TRUE]
                     ELSE NoProfile]

Start(clients) ==
    /\ profiles = Directory
    /\ ledger = <<>>
    /\ auditlog = <<>>
    /\ now = 1
    /\ Client \in clients
    /\ req = Idle
    /\ last = Booted
    /\ ever = <<>>
    /\ prev = NoneApplied
    /\ handlers = [h \in Handlers |-> IdleHandler]

----------------------------------------------------------------------------
(* Spec: the dispatcher at work, with callbacks and inbound messages arriving *)

Init == Start(BOOLEAN)

SpecStatusPosts == StatusPosts({"SM1"}, {"delivered"}, ErrorCodes)
SpecInboundPosts == InboundPosts({P1}, {FullMessage})

Next ==
    \/ Dispatch(Users, Campaigns, MaxLedger)
    \/ Reconcile(SpecStatusPosts)
    \/ Route(SpecInboundPosts, MaxLedger)
    \/ Tick

Spec == Init /\ [][Next]_vars

----------------------------------------------------------------------------
(* SpecReconcile: callbacks of every kind against sent and received messages *)

InitReconcile == Start({TRUE})

ReconcileStatusPosts == StatusPosts(Sids, StatusSome, {})
ReconcileInboundPosts == InboundPosts({P1, P2}, {FullMessage, BareMessage})

NextReconcile ==
    \/ Dispatch({"alice"}, {None}, MaxLedger)
    \/ Reconcile(ReconcileStatusPosts)
    \/ Route(ReconcileInboundPosts, MaxLedger)
    \/ Tick

SpecReconcile == InitReconcile /\ [][NextReconcile]_vars

----------------------------------------------------------------------------
(* SpecVocabulary: the whole status vocabulary against one sent message *)

VocabularyStatusPosts == StatusPosts({"SM1"}, StatusVocabulary, {})

NextVocabulary ==
    \/ Dispatch({"alice"}, {None}, MaxLedger)
    \/ Reconcile(VocabularyStatusPosts)
    \/ Tick

SpecVocabulary == InitReconcile /\ [][NextVocabulary]_vars

----------------------------------------------------------------------------
(* SpecDirectory: profile writes through the serializer, and the inbound router *)

PhoneInputs == {<<>>, P1, NoPlus}

ProfileData ==
    {("timezone_name" :> "UTC") @@ a @@ b @@ c :
        a \in OptField("user", Users),
        b \in OptField("phone_number", PhoneInputs),
        c \in OptField("sms_opt_in", BOOLEAN)}

DirectoryInboundPosts == InboundPosts({<<>>, P1, P2}, {FullMessage, BareMessage})

InitDirectory ==
    /\ profiles \in [Users -> {NoProfile, DefaultProfile}]
    /\ ledger = <<>>
    /\ auditlog = <<>>
    /\ now = 1
    /\ Client = TRUE
    /\ req = Idle
    /\ last = Booted
    /\ ever = <<>>
    /\ prev = NoneApplied
    /\ handlers = [h \in Handlers |-> IdleHandler]

NextDirectory ==
    \/ \E data \in ProfileData : ProfileSerializer_create(data)
    \/ \E u \in Users, data \in ProfileData : ProfileSerializer_update(u, data)
    \/ Route(DirectoryInboundPosts, MaxInbox)
    \/ Tick

SpecDirectory == InitDirectory /\ [][NextDirectory]_vars

----------------------------------------------------------------------------
(* SpecCallbacks: failure and delivery reports, with and without an error code *)

CallbackStatusPosts ==
    StatusPosts({"SM1"}, {"delivered", "failed", "undelivered", "sent"}, {"30003", "30005"})

NextCallbacks ==
    \/ Dispatch({"alice"}, {None}, MaxLedger)
    \/ Reconcile(CallbackStatusPosts)
    \/ Tick

SpecCallbacks == InitReconcile /\ [][NextCallbacks]_vars

----------------------------------------------------------------------------
(* SpecFrame: several messages in the ledger while callbacks and messages arrive *)

FrameStatusPosts == StatusPosts(Sids, {"failed"}, {})
FrameInboundPosts == InboundPosts({P1}, {BareMessage})

NextFrame ==
    \/ Dispatch({"alice"}, {None}, MaxRetry)
    \/ Reconcile(FrameStatusPosts)
    \/ Route(FrameInboundPosts, MaxRetry)
    \/ Tick

SpecFrame == InitReconcile /\ [][NextFrame]_vars

----------------------------------------------------------------------------
(* SpecConcurrent: two status webhook requests in progress at once *)

\* the reports Twilio sends for SM1: delivered, sent, and failed with its error code
ConcurrentStatusPosts ==
    {post \in StatusPosts({"SM1"}, {"delivered", "sent", "failed"}, ErrorCodes) :
        /\ {"MessageSid", "MessageStatus"} \subseteq DOMAIN post
        /\ "ErrorCode" \in DOMAIN post <=> post["MessageStatus"] = "failed"}

NextConcurrent ==
    \/ Dispatch({"alice"}, {None}, MaxLedger)
    \/ \E h \in Handlers, post \in ConcurrentStatusPosts : twilio_status_webhook_get(h, post)
    \/ \E h \in Handlers : twilio_status_webhook_apply(h)
    \/ Tick

SpecConcurrent == InitReconcile /\ [][NextConcurrent]_vars

----------------------------------------------------------------------------
(* SpecEntry: the dispatcher entered through its HTTP entry points *)

\* a user without a profile row, and the rows the serializer can have stored
EntryProfiles ==
    {NoProfile, DefaultProfile,
     [DefaultProfile EXCEPT !.phone_number = P1],
     [DefaultProfile EXCEPT !.phone_number = P1, !.sms_opt_in = TRUE]}

InitEntry ==
    /\ profiles \in [Users -> EntryProfiles]
    /\ ledger = <<>>
    /\ auditlog = <<>>
    /\ now = 1
    /\ Client = TRUE
    /\ req = Idle
    /\ last = Booted
    /\ ever = <<>>
    /\ prev = NoneApplied
    /\ handlers = [h \in Handlers |-> IdleHandler]

NextEntry ==
    \/ \E u \in Users, b \in Bodies :
          SendMessageSerializer_save(u, b) /\ Len(ledger') <= MaxLedger
    \/ send_test_sms /\ Len(ledger') <= MaxLedger
    \/ send_sms_call
    \/ send_sms_sent
    \/ send_sms_failed
    \/ Tick

SpecEntry == InitEntry /\ [][NextEntry]_vars

----------------------------------------------------------------------------
(* SpecQueued: "queued" reports and received messages around a dispatch *)

QueuedStatusPosts == StatusPosts({"SM1"}, {"queued", "delivered"}, {})
QueuedInboundPosts == InboundPosts({P1}, {FullMessage})

NextQueued ==
    \/ Dispatch({"alice"}, {None}, MaxLedger)
    \/ Reconcile(QueuedStatusPosts)
    \/ Route(QueuedInboundPosts, MaxLedger)
    \/ Tick

SpecQueued == Init /\ [][NextQueued]_vars

----------------------------------------------------------------------------
(* SpecProfiles: the directory alone: serializer writes and verifications *)

NextProfiles ==
    \/ \E data \in ProfileData : ProfileSerializer_create(data)
    \/ \E u \in Users, data \in ProfileData : ProfileSerializer_update(u, data)
    \/ \E u \in Users : ProfileViewSet_verify(u)
    \/ \E u \in Users : mark_verified(u)
    \/ Tick

SpecProfiles == InitDirectory /\ [][NextProfiles]_vars

----------------------------------------------------------------------------
(* SpecPhone: phone numbers of every shape submitted to ProfileSerializer *)

Rep(c, n) == [i \in 1..n |-> c]

\* a prefix, a run of the digit 5, a suffix; none holds whitespace
PhoneStrings ==
    {pre \o Rep("5", n) \o suf :
        pre \in {<<>>, <<"+">>, <<"+", "1">>, <<"+", "0">>},
        n \in 0..MaxPhone,
        suf \in {<<>>, <<ArabicIndicThree>>, <<"x">>}}

PhoneData ==
    {("timezone_name" :> "UTC") @@ ("user" :> "alice") @@ ("phone_number" :> p) :
        p \in PhoneStrings}

NextPhone ==
    \E data \in PhoneData : ProfileSerializer_create(data)

SpecPhone == InitDirectory /\ [][NextPhone]_vars

----------------------------------------------------------------------------
(* SpecRetry: Twilio repeats an inbound webhook, then reports a status for its sid *)

RetryStatusPosts == StatusPosts({"SM1", ""}, {"delivered", "failed"}, ErrorCodes)
RetryInboundPosts == InboundPosts({P1}, {FullMessage})

NextRetry ==
    \/ Reconcile(RetryStatusPosts)
    \/ Route(RetryInboundPosts, MaxRetry)
    \/ Tick

SpecRetry == InitReconcile /\ [][NextRetry]_vars

----------------------------------------------------------------------------
(* Properties of the dispatcher *)

\* the row send_sms is documented to create for (to_user, body, campaign)
QueuedRow(to_user, body, campaign) ==
    [to_user |-> to_user, direction |-> "OUTBOUND", body |-> body, twilio_sid |-> "",
     status |-> "QUEUED", error_code |-> "", raw_provider_status |-> "",
     campaign |-> campaign, delivered_at |-> NoTime]

\* C1: every call of send_sms commits exactly one new row, OUTBOUND and QUEUED with the
\* given body and campaign, before the provider is invoked; the row is there, still
\* QUEUED, when the provider is invoked, and no later step of the call (the provider
\* succeeding, raising, or never being reached) adds or removes a row.
C1_OneQueuedRowFirst ==
    [][ /\ (req.pc = "idle" /\ req'.pc # "idle") =>
              /\ ledger' = Append(ledger, QueuedRow(req'.to_user, req'.body, req'.campaign))
              /\ req'.pk = Len(ledger')
              /\ ~req'.invoked
        /\ (req.pc # "idle") =>
              /\ Len(ledger') = Len(ledger)
              /\ Len(ledger') = req.len0 + 1
        /\ (~req.invoked /\ req'.invoked) =>
              ledger[req.pk] = QueuedRow(req.to_user, req.body, req.campaign)
      ]_vars

\* a call that failed before the provider was reached has left its one row
C1_Witness ==
    /\ req.pc = "except"
    /\ ~req.invoked
    /\ Len(ledger) = req.len0 + 1
    /\ ledger[req.pk].direction = "OUTBOUND"

\* C2: when the provider call succeeds and returns p, send_sms returns the Message it
\* created and the row has status SENT, twilio_sid p and raw_provider_status "sent",
\* the other fields being as created.
C2_SentOnProviderSuccess ==
    [][ (req.pc = "sent" /\ req'.pc = "idle") =>
            /\ last' = Answer("send_sms", 0, "Message", req.pk)
            /\ ledger' = [ledger EXCEPT ![req.pk] =
                   [QueuedRow(req.to_user, req.body, req.campaign) EXCEPT
                       !.status = "SENT", !.twilio_sid = req.sid,
                       !.raw_provider_status = "sent"]]
      ]_vars

\* C3: when the provider call (or the code before it inside the try block) raises,
\* the row stays in the ledger with status FAILED, the exception's code or else its
\* type name as a non-empty error_code, and an empty twilio_sid, and send_sms raises.
C3_FailedOnProviderError ==
    [][ (req.pc = "except" /\ req'.pc = "idle") =>
            /\ last' = Answer("send_sms", 0, "raised", req.pk)
            /\ ledger'[req.pk].error_code # ""
            /\ ledger' = [ledger EXCEPT ![req.pk] =
                   [QueuedRow(req.to_user, req.body, req.campaign) EXCEPT
                       !.status = "FAILED",
                       !.error_code = IF req.code # "" THEN req.code ELSE req.exc]]
      ]_vars

\* the provider raised an exception without a code: the type name is the error_code
C3_Witness ==
    /\ last.op = "send_sms"
    /\ last.ret = "raised"
    /\ last.pk \in DOMAIN ledger
    /\ ledger[last.pk].status = "FAILED"
    /\ ledger[last.pk].error_code = "TwilioRestException"
    /\ ledger[last.pk].twilio_sid = ""

----------------------------------------------------------------------------
(* Properties of the reconciler *)

\* the form fields as the views read them
SidOf(post) == IF "MessageSid" \in DOMAIN post THEN post["MessageSid"] ELSE ""
HasStatus(post) == "MessageStatus" \in DOMAIN post /\ post["MessageStatus"] # ""

\* the documented mapping of a raw status onto the internal status
MappedStatus(post, old) ==
    IF ~HasStatus(post) THEN old
    ELSE IF post["MessageStatus"] = "delivered" THEN "DELIVERED"
    ELSE IF post["MessageStatus"] \in {"failed", "undelivered"} THEN "FAILED"
    ELSE IF post["MessageStatus"] \in {"sent", "queued", "accepted"} THEN "SENT"
    ELSE old

\* C4: a status callback applied to an existing message sets the status by exact,
\* case-sensitive match (delivered -> DELIVERED; failed, undelivered -> FAILED; sent,
\* queued, accepted -> SENT; anything else, absent or empty: unchanged), and
\* raw_provider_status becomes the raw status, or "unknown" when it is absent or empty.
C4_StatusMapping ==
    [][ \A post \in VocabularyStatusPosts : \A pk \in DOMAIN ledger :
          ( /\ SidOf(post) # ""
            /\ ledger[pk].twilio_sid = SidOf(post)
            /\ \/ last'.op = "twilio_status_webhook" /\ twilio_status_webhook(post)
               \/ last'.op = "handle_status_callback" /\ handle_status_callback(post) ) =>
              /\ ledger'[pk].status = MappedStatus(post, ledger[pk].status)
              /\ ledger'[pk].raw_provider_status =
                     IF HasStatus(post) THEN post["MessageStatus"] ELSE "unknown"
      ]_vars

\* a differently-cased spelling was recorded as the raw status of a message left SENT
C4_Witness ==
    /\ last.op = "twilio_status_webhook"
    /\ last.pk \in DOMAIN ledger
    /\ ledger[last.pk].raw_provider_status = "Delivered"
    /\ ledger[last.pk].status = "SENT"

\* C5: a status callback whose sid matches no row changes nothing: no row is created
\* or changed, nothing is raised, handle_status_callback returns None and the status
\* webhook answers 200.
C5_UnknownSidNoOp ==
    [][ \A post \in ReconcileStatusPosts :
          ( /\ last'.op \in {"twilio_status_webhook", "handle_status_callback"}
            /\ SidOf(post) # ""
            /\ \A i \in DOMAIN ledger : ledger[i].twilio_sid # SidOf(post) ) =>
              /\ twilio_status_webhook(post) =>
                    /\ <<ledger', profiles', auditlog'>> = <<ledger, profiles, auditlog>>
                    /\ last' = Answer("twilio_status_webhook", 200, "HttpResponse", 0)
              /\ handle_status_callback(post) =>
                    /\ <<ledger', profiles', auditlog'>> = <<ledger, profiles, auditlog>>
                    /\ last' = Answer("handle_status_callback", 0, "None", 0)
      ]_vars

\* the webhook answered 200 without finding a row, in a ledger that holds a row with a sid
C5_Witness ==
    /\ last = Answer("twilio_status_webhook", 200, "HttpResponse", 0)
    /\ \E i \in DOMAIN ledger : ledger[i].twilio_sid # ""

\* C6: a POST to the status webhook is answered 400, the ledger unchanged, when
\* MessageSid is missing or empty, and otherwise always 200 with no exception escaping,
\* however many rows carry that sid.
C6_StatusWebhookAlwaysAnswers ==
    [][ \A post \in RetryStatusPosts :
          (last'.op = "twilio_status_webhook" /\ twilio_status_webhook(post)) =>
              IF SidOf(post) = ""
              THEN last'.resp = 400 /\ ledger' = ledger
              ELSE last'.resp = 200 /\ last'.ret # "raised"
      ]_vars

\* C9: a row's delivered_at is non-null exactly when its status is or has been
\* DELIVERED, after any sequence of dispatch, status callback and inbound operations.
C9_DeliveredAtIffEverDelivered ==
    \A i \in DOMAIN ledger : (ledger[i].delivered_at # NoTime) <=> ever[i]

\* a message delivered and then reported sent keeps its delivered_at
C9_Witness ==
    \E i \in DOMAIN ledger :
        /\ ever[i]
        /\ ledger[i].status = "SENT"
        /\ ledger[i].direction = "OUTBOUND"
        /\ ledger[i].delivered_at # NoTime

----------------------------------------------------------------------------
(* Properties of the inbound router and of the directory *)

\* the profiles whose phone_number is the From field of the form
Senders(post) ==
    IF "From" \in DOMAIN post
    THEN {u \in Users : profiles[u].exists /\ profiles[u].phone_number = post["From"]}
    ELSE {}

\* the row the router is documented to append for a message of user u
InboundRow(u, post) ==
    [to_user |-> u, direction |-> "INBOUND",
     body |-> IF "Body" \in DOMAIN post THEN post["Body"] ELSE "",
     twilio_sid |-> SidOf(post), status |-> "DELIVERED", error_code |-> "",
     raw_provider_status |-> "", campaign |-> None, delivered_at |-> now]

\* C7: an inbound message whose sender number is the phone_number of exactly one
\* profile appends exactly one row: INBOUND, that profile's user, the body and sid
\* received, DELIVERED, delivered_at set; one whose sender number matches no profile
\* appends nothing, changes nothing and reports no error.
C7_InboundRouting ==
    [][ \A post \in DirectoryInboundPosts :
          ( /\ last'.op \in {"twilio_inbound_webhook", "handle_inbound"}
            /\ "From" \in DOMAIN post
            /\ post["From"] # <<>>
            /\ twilio_inbound_webhook(post) \/ handle_inbound(post) ) =>
              /\ now # NoTime
              /\ \A u \in Users : Senders(post) = {u} =>
                    /\ ledger' = Append(ledger, InboundRow(u, post))
                    /\ profiles' = profiles
                    /\ last'.ret # "raised"
              /\ Senders(post) = {} =>
                    /\ <<ledger', profiles', auditlog'>> = <<ledger, profiles, auditlog>>
                    /\ last'.ret # "raised"
                    /\ last'.resp \in {0, 200}
      ]_vars

\* bob, the only profile with the sender's number, received the message
C7_Witness ==
    /\ last.op = "twilio_inbound_webhook"
    /\ last.pk \in DOMAIN ledger
    /\ ledger[last.pk].direction = "INBOUND"
    /\ ledger[last.pk].to_user = "bob"
    /\ profiles["bob"].phone_number = P1
    /\ ~(profiles["alice"].exists /\ profiles["alice"].phone_number = P1)

\* C8: when the sender number of an inbound POST matches more than one profile the
\* router writes no row and raises nothing, and every POST that carries a sender
\* number is answered 200.
C8_InboundAlwaysAnswers200 ==
    [][ \A post \in DirectoryInboundPosts :
          ( /\ last'.op = "twilio_inbound_webhook"
            /\ "From" \in DOMAIN post
            /\ post["From"] # <<>>
            /\ twilio_inbound_webhook(post) ) =>
              /\ last'.resp = 200
              /\ last'.ret # "raised"
              /\ Cardinality(Senders(post)) > 1 => ledger' = ledger
      ]_vars

\* C10: every stored profile with sms_opt_in true has a non-empty phone_number,
\* after any sequence of writes through ProfileSerializer.
C10_OptInNeedsPhone ==
    \A u \in Users :
        (profiles[u].exists /\ profiles[u].sms_opt_in) => profiles[u].phone_number # <<>>

----------------------------------------------------------------------------
(* Properties of phone validation *)

\* the documented format: '+', a digit 1-9, then 7 to 14 digits 0-9, and nothing else
DocumentedE164(s) ==
    /\ Len(s) \in 9..16
    /\ s[1] = "+"
    /\ s[2] \in {"1", "2", "3", "4", "5", "6", "7", "8", "9"}
    /\ \A i \in 3..Len(s) : s[i] \in {"0", "1", "2", "3", "4", "5", "6", "7", "8", "9"}

\* C11: phone validation accepts a value exactly when it is the empty string or is
\* '+', one digit 1-9 and 7 to 14 further digits 0-9 with nothing else; every other
\* string is rejected with an error on phone_number.
C11_PhoneValidation ==
    [][ \A data \in PhoneData :
          (last'.op = "ProfileSerializer.create" /\ ProfileSerializer_create(data)) =>
              ( (last'.ret # "phone_number") <=>
                   (data["phone_number"] = <<>> \/ DocumentedE164(data["phone_number"])) )
      ]_vars

----------------------------------------------------------------------------
(* Properties of the profile directory *)

WritableFields == {"phone_number", "sms_opt_in", "timezone_name"}

\* C12: ProfileSerializer.create for a user who already has a profile raises no
\* uniqueness error: that row takes the supplied fields, keeps the others, and is
\* returned; no other row is written and every user still has at most one profile;
\* a create without a user is rejected with an error on user_id and writes nothing.
C12_CreateIsUpsert ==
    [][ \A data \in ProfileData :
          ( /\ last'.op = "ProfileSerializer.create"
            /\ last'.ret \notin {"phone_number", "sms_opt_in"}
            /\ ProfileSerializer_create(data) ) =>
              IF "user" \notin DOMAIN data
              THEN /\ last' = Answer("ProfileSerializer.create", 400, "user_id", 0)
                   /\ profiles' = profiles
              ELSE /\ last' = Answer("ProfileSerializer.create", 201, "Profile", 0)
                   /\ profiles'[data["user"]].exists
                   /\ \A v \in Users \ {data["user"]} : profiles'[v] = profiles[v]
                   /\ \A f \in WritableFields :
                         f \in DOMAIN data => profiles'[data["user"]][f] = data[f]
                   /\ profiles[data["user"]].exists =>
                         /\ \A f \in WritableFields :
                               f \notin DOMAIN data =>
                                   profiles'[data["user"]][f] = profiles[data["user"]][f]
                         /\ profiles'[data["user"]].verified_at =
                                profiles[data["user"]].verified_at
      ]_vars

\* a create that supplied an empty number and no sms_opt_in kept the opt-in of the row
\* that was there: only an upsert of an existing row leaves an opt-in without a number
C12_Witness ==
    /\ last = Answer("ProfileSerializer.create", 201, "Profile", 0)
    /\ \E u \in Users :
          /\ profiles[u].exists
          /\ profiles[u].sms_opt_in
          /\ profiles[u].phone_number = <<>>

\* C13: verified_at is null until the first verification (verify or mark_verified),
\* and once it is non-null no later operation changes it.
C13_VerifiedAtSetOnce ==
    [][ \A u \in Users :
          /\ (profiles[u].verified_at = NoTime /\ profiles'[u].verified_at # NoTime) =>
                 last'.op \in {"ProfileViewSet.verify", "mark_verified"}
          /\ profiles[u].verified_at # NoTime =>
                 profiles'[u].verified_at = profiles[u].verified_at
      ]_vars

----------------------------------------------------------------------------
(* Properties of the audit trail and of failure reports *)

\* C14: an audit write that fails after the provider succeeded is not fatal: send_sms
\* returns the Message, the row stays SENT with its sid and an empty error_code; when
\* both succeed exactly one SEND_SMS entry linking recipient and message is appended;
\* when the provider call fails no entry is appended.
C14_AuditFailureNotFatal ==
    [][ /\ (req.pc = "sent" /\ req'.pc = "idle") =>
              /\ last' = Answer("send_sms", 0, "Message", req.pk)
              /\ ledger'[req.pk].status = "SENT"
              /\ ledger'[req.pk].twilio_sid = req.sid
              /\ ledger'[req.pk].error_code = ""
              /\ \/ auditlog' = auditlog
                 \/ auditlog' = Append(auditlog,
                        [actor |-> None, action |-> "SEND_SMS",
                         target_user |-> req.to_user, message |-> req.pk])
        /\ (req.pc = "except" /\ req'.pc = "idle") => auditlog' = auditlog
      ]_vars

\* C15: after a "failed" or "undelivered" callback is applied to a message, its
\* error_code is the error code given with that callback (none given: empty),
\* whether the message held no error_code before or one from an earlier callback.
C15_ErrorCodeIsGiven ==
    [][ \A post \in CallbackStatusPosts : \A pk \in DOMAIN ledger :
          ( /\ "MessageStatus" \in DOMAIN post
            /\ post["MessageStatus"] \in {"failed", "undelivered"}
            /\ SidOf(post) # ""
            /\ ledger[pk].twilio_sid = SidOf(post)
            /\ ledger[pk].error_code \in {"", "30003", "30005"}
            /\ \/ last'.op = "twilio_status_webhook" /\ twilio_status_webhook(post)
               \/ last'.op = "handle_status_callback" /\ handle_status_callback(post) ) =>
              ledger'[pk].error_code = Get(post, "ErrorCode", "")
      ]_vars

----------------------------------------------------------------------------
(* Properties of the order of callbacks *)

\* C16: the reconciler is last-write-wins and not monotonic: a callback "sent",
\* "queued" or "accepted" applied to a DELIVERED or FAILED message sets the status
\* back to SENT and leaves delivered_at as it was; whatever the status among SENT,
\* DELIVERED and FAILED, the callback's mapping alone decides the new status.
C16_NotMonotonic ==
    [][ \A post \in VocabularyStatusPosts : \A pk \in DOMAIN ledger :
          ( /\ ledger[pk].status \in {"SENT", "DELIVERED", "FAILED"}
            /\ HasStatus(post)
            /\ post["MessageStatus"] \in
                   {"sent", "queued", "accepted", "delivered", "failed", "undelivered"}
            /\ SidOf(post) # ""
            /\ ledger[pk].twilio_sid = SidOf(post)
            /\ \/ last'.op = "twilio_status_webhook" /\ twilio_status_webhook(post)
               \/ last'.op = "handle_status_callback" /\ handle_status_callback(post) ) =>
              /\ post["MessageStatus"] \in {"sent", "queued", "accepted"} =>
                    /\ ledger'[pk].status = "SENT"
                    /\ ledger'[pk].delivered_at = ledger[pk].delivered_at
              /\ post["MessageStatus"] = "delivered" => ledger'[pk].status = "DELIVERED"
              /\ post["MessageStatus"] \in {"failed", "undelivered"} =>
                    ledger'[pk].status = "FAILED"
      ]_vars

\* "delivered" and then "queued": the message is SENT again and keeps its delivered_at
C16_Witness ==
    /\ prev.pk \in DOMAIN ledger
    /\ Get(prev.post, "MessageStatus", None) = "queued"
    /\ last.op \in {"twilio_status_webhook", "handle_status_callback"}
    /\ last.pk = prev.pk
    /\ ledger[prev.pk].status = "SENT"
    /\ ledger[prev.pk].raw_provider_status = "queued"
    /\ ever[prev.pk]
    /\ ledger[prev.pk].delivered_at # NoTime

\* C17: the same status callback (same sid, raw status and error code) applied twice
\* in a row to a message: the second application leaves status, raw_provider_status
\* and error_code as the first left them and raises nothing; it changes delivered_at
\* only for "delivered", to the time of the second call.
C17_RepeatedCallback ==
    [][ \A post \in CallbackStatusPosts : \A pk \in DOMAIN ledger :
          ( /\ prev.post = post
            /\ prev.pk = pk
            /\ SidOf(post) # ""
            /\ ledger[pk].twilio_sid = SidOf(post)
            /\ \/ last'.op = "twilio_status_webhook" /\ twilio_status_webhook(post)
               \/ last'.op = "handle_status_callback" /\ handle_status_callback(post) ) =>
              /\ last'.ret # "raised"
              /\ last'.pk = pk
              /\ ledger'[pk].status = ledger[pk].status
              /\ ledger'[pk].raw_provider_status = ledger[pk].raw_provider_status
              /\ ledger'[pk].error_code = ledger[pk].error_code
              /\ ledger'[pk].delivered_at =
                     IF Get(post, "MessageStatus", None) = "delivered"
                     THEN now ELSE ledger[pk].delivered_at
      ]_vars

\* "delivered" was applied a second time in a row, at time 2
C17_Witness ==
    /\ prev.again
    /\ prev.pk \in DOMAIN ledger
    /\ Get(prev.post, "MessageStatus", None) = "delivered"
    /\ ledger[prev.pk].status = "DELIVERED"
    /\ ledger[prev.pk].delivered_at = 2

----------------------------------------------------------------------------
(* Frame properties *)

ImmutableFields == {"to_user", "direction", "body", "twilio_sid", "campaign"}

\* C18: a status callback changes at most the one Message it looked up by sid, and of
\* it only status, raw_provider_status, error_code and delivered_at; it creates and
\* deletes no row and touches no Profile; send_sms and the inbound router change no
\* Message other than the one they create.
C18_Frame ==
    [][ /\ \A post \in FrameStatusPosts :
              ( /\ last'.op \in {"twilio_status_webhook", "handle_status_callback"}
                /\ twilio_status_webhook(post) \/ handle_status_callback(post) ) =>
                  /\ Len(ledger') = Len(ledger)
                  /\ profiles' = profiles
                  /\ \A i \in DOMAIN ledger :
                        /\ \A f \in ImmutableFields : ledger'[i][f] = ledger[i][f]
                        /\ ledger'[i] # ledger[i] =>
                              /\ ledger[i].twilio_sid = SidOf(post)
                              /\ i = last'.pk
        /\ \A post \in FrameInboundPosts :
              ( /\ last'.op \in {"twilio_inbound_webhook", "handle_inbound"}
                /\ twilio_inbound_webhook(post) \/ handle_inbound(post) ) =>
                  /\ Len(ledger') \in {Len(ledger), Len(ledger) + 1}
                  /\ \A i \in DOMAIN ledger : ledger'[i] = ledger[i]
        /\ (req.pc = "idle" /\ req'.pc # "idle") =>
              /\ Len(ledger') = Len(ledger) + 1
              /\ \A i \in DOMAIN ledger : ledger'[i] = ledger[i]
        /\ (req.pc # "idle") =>
              /\ Len(ledger') = Len(ledger)
              /\ \A i \in DOMAIN ledger \ {req.pk} : ledger'[i] = ledger[i]
      ]_vars

\* a callback failed the message SM1 while the sent message SM2 was in the ledger,
\* as it still is
C18_Witness ==
    /\ last.op = "twilio_status_webhook"
    /\ last.pk \in DOMAIN ledger
    /\ ledger[last.pk].twilio_sid = "SM1"
    /\ ledger[last.pk].status = "FAILED"
    /\ \E i \in DOMAIN ledger :
          /\ i # last.pk
          /\ ledger[i].direction = "OUTBOUND"
          /\ ledger[i].status = "SENT"

----------------------------------------------------------------------------
(* Properties of concurrent callbacks *)

\* C19: of two status callbacks for one sid handled concurrently (each reads the row,
\* then persists its update as a separate step), the one that commits last leaves the
\* row as if it had run after the other: the row equals the callback applied to the
\* row as committed; no committed "delivered" is left with a null delivered_at.
C19_LastWriteWins ==
    [][ \A h \in Handlers :
          (handlers[h].pc = "apply" /\ handlers'[h].pc = "idle") =>
              LET pk == handlers[h].pk
                  post == handlers[h].post
              IN  /\ ledger'[pk] =
                         apply_twilio_status(ledger, pk, ledger[pk],
                             Get(post, "MessageStatus", None), Get(post, "ErrorCode", None))[pk]
                  /\ ever'[pk] => ledger'[pk].delivered_at # NoTime
      ]_vars

----------------------------------------------------------------------------
(* Properties of the entry points *)

\* the documented precondition of a dispatch to user
MayReceive(user) ==
    /\ profiles[user].exists
    /\ profiles[user].phone_number # <<>>
    /\ profiles[user].sms_opt_in

\* C20: every call of send_sms made from an HTTP entry point is made for a user whose
\* profile has, at that time, a non-empty phone_number and sms_opt_in true; a request
\* for any other user is rejected with a validation error, creates no Message and
\* reaches no provider call.
C20_CheckedBeforeDispatch ==
    [][ /\ (req.pc = "idle" /\ req'.pc # "idle") => MayReceive(req'.to_user)
        /\ \A i \in DOMAIN ledger' \ DOMAIN ledger :
              ledger'[i].direction = "OUTBOUND" => MayReceive(ledger'[i].to_user)
        /\ \A u \in Users, b \in Bodies :
              (~MayReceive(u) /\ SendMessageSerializer_save(u, b)) =>
                  /\ last' = Answer("SendMessageSerializer", 400, "to_user", 0)
                  /\ ledger' = ledger
                  /\ req' = req
      ]_vars

----------------------------------------------------------------------------
(* Properties of the ledger's states *)

\* C21: in every reachable state a Message whose status is not FAILED has an empty
\* error_code: a code recorded with a failure does not survive a later transition
\* of the message to SENT or DELIVERED.
C21_ErrorCodeOnlyWhenFailed ==
    \A i \in DOMAIN ledger : ledger[i].status # "FAILED" => ledger[i].error_code = ""

\* C22: QUEUED is transient: a send_sms call that has run to completion, returning or
\* raising, leaves its Message SENT or FAILED; no operation takes a Message that is
\* not QUEUED to QUEUED, not even a "queued" callback; only the Message of the call in
\* progress is QUEUED, and an INBOUND Message never is.
C22_QueuedIsTransient ==
    [][ /\ (req.pc # "idle" /\ req'.pc = "idle") =>
              ledger'[req.pk].status \in {"SENT", "FAILED"}
        /\ \A i \in DOMAIN ledger :
              ledger[i].status # "QUEUED" => ledger'[i].status # "QUEUED"
        /\ \A i \in DOMAIN ledger' :
              ledger'[i].status = "QUEUED" =>
                  /\ ledger'[i].direction = "OUTBOUND"
                  /\ req'.pc # "idle"
                  /\ i = req'.pk
      ]_vars

\* a "queued" callback was applied to a sent message, which is SENT
C22_Witness ==
    /\ prev.pk \in DOMAIN ledger
    /\ Get(prev.post, "MessageStatus", None) = "queued"
    /\ last.pk = prev.pk
    /\ ledger[prev.pk].direction = "OUTBOUND"
    /\ ledger[prev.pk].raw_provider_status = "queued"
    /\ ledger[prev.pk].status = "SENT"
    /\ \A i \in DOMAIN ledger : ledger[i].status # "QUEUED"

\* C23: no status callback for a message the provider accepted is lost: a callback
\* for a sid that a successful provider call has returned to send_sms finds the row
\* and goes on to apply its status, also while send_sms holds the sid and has not
\* yet saved it on the row.
C23_NoCallbackLost ==
    [][ \A h \in Handlers : \A post \in ConcurrentStatusPosts :
          ( /\ handlers[h].pc = "idle"
            /\ \/ req.pc = "sent" /\ req.sid = SidOf(post)
               \/ \E i \in DOMAIN ledger :
                     ledger[i].direction = "OUTBOUND" /\ ledger[i].twilio_sid = SidOf(post)
            /\ handlers'[h] # handlers[h] \/ last' # last
            /\ twilio_status_webhook_get(h, post) ) =>
              /\ handlers'[h].pc = "apply"
              /\ handlers'[h].pk \in DOMAIN ledger
              /\ ledger[handlers'[h].pk].direction = "OUTBOUND"
      ]_vars

----------------------------------------------------------------------------
(* Properties of received messages *)

\* C24: an inbound POST whose From field is missing or empty creates no Message,
\* whatever the profiles, also when exactly one profile has an empty phone_number.
C24_NoSenderNoMessage ==
    [][ \A post \in DirectoryInboundPosts :
          ( /\ last'.op \in {"twilio_inbound_webhook", "handle_inbound"}
            /\ "From" \notin DOMAIN post \/ post["From"] = <<>>
            /\ twilio_inbound_webhook(post) \/ handle_inbound(post) ) =>
              ledger' = ledger
      ]_vars

\* C25: in every reachable state every INBOUND Message has status DELIVERED: no
\* status callback changes it, whatever its MessageSid.
C25_InboundStaysDelivered ==
    \A i \in DOMAIN ledger : ledger[i].direction = "INBOUND" => ledger[i].status = "DELIVERED"

====
